---- MODULE Spec2Model ----
(***************************************************************************)
(* git2txt: the file-selection and aggregation pipeline (processFiles and  *)
(* its nested processDirectory) of the command line tool, with the glob    *)
(* matching, size formatting and option derivation it depends on.          *)
(*                                                                         *)
(* Text is a sequence of pieces [c, n, p, s]: n repetitions of the         *)
(* character or literal c; p and s carry the path and the formatted size   *)
(* of a "**** File:" / "**** Directory:" line.  File contents use the same *)
(* run-length form, so that files of realistic size stay small values.     *)
(***************************************************************************)
EXTENDS Integers, Sequences, FiniteSets, TLC

\* ------------------------------------------------------------------ bounds
\* largest --max-files value tried (0 = unlimited)
MaxMaxFiles == 2
\* the small size threshold tried, in bytes (given to processFiles as
\* SmallThresholdBytes / 2^20 MB)
SmallThresholdBytes == 5

\* last millisecond of the clock in the model of concurrent downloads
MaxClock == 2

\* ------------------------------------------------------------ program text
\* 1024 * 1024, the MB-to-bytes factor of thresholdBytes
MB == 1024 * 1024

\* length of the line "**** File: a.txt, size: 5 B" the format string of
\* the fragment header produces for a.txt of 5 bytes
HdrLikeLen == 27

NoSize == [v |-> 0, u |-> ""]
Piece(c, n) == [c |-> c, n |-> n, p |-> <<>>, s |-> NoSize]
NL == Piece("\n", 1)
Rep(c, n) == IF n > 0 THEN <<Piece(c, n)>> ELSE <<>>

\* filesize(): below 1000 bytes "<n> B", else the value divided by 1000
\* (kB) or 1000000 (MB) rounded to two decimals; v is in hundredths
formatFileSize(n) ==
    IF n < 1000 THEN [v |-> n * 100, u |-> "B"]
    ELSE IF (n + 5) \div 10 < 100000 THEN [v |-> (n + 5) \div 10, u |-> "kB"]
    ELSE [v |-> (n + 5000) \div 10000, u |-> "MB"]

\* `**** File: ${relativePath}, size: ${formatFileSize(stats.size)}`
FileLine(rel, size) == [c |-> "**** File:", n |-> 1, p |-> rel, s |-> formatFileSize(size)]
\* `**** Directory: ${relativePath}`
DirLine(rel) == [c |-> "**** Directory:", n |-> 1, p |-> rel, s |-> NoSize]
\* `This file and all following files were omitted due to max-files limit.`
CutoffLine == Piece("This file and all following files were omitted", 1)
\* `[Truncated: File size exceeds ${options.threshold} MB]`
TruncatedLine == Piece("[Truncated: File size exceeds threshold]", 1)
\* `Total ${omittedFiles} files were omitted due to the maxFiles limit`
SummaryLine(k) == [c |-> "Total files omitted", n |-> 1, p |-> <<>>, s |-> [v |-> k, u |-> "files"]]

\* number of UTF-16 code units / of UTF-8 bytes of one repetition of c.
\* "emoji" is a character outside the basic plane: a surrogate pair, four
\* bytes; "high surrogate" is the first half of one, which UTF-8 cannot
\* encode and which is written as U+FFFD, three bytes.
UnitLen(c) == IF c = "**** File:" THEN HdrLikeLen ELSE IF c = "emoji" THEN 2 ELSE 1
ByteLen(c) ==
    IF c = "**** File:" THEN HdrLikeLen
    ELSE IF c = "emoji" THEN 4
    ELSE IF c \in {"high surrogate", "U+FFFD"} THEN 3
    ELSE IF c = "eacute" THEN 2 ELSE 1

RECURSIVE Units(_)
Units(t) == IF t = <<>> THEN 0 ELSE Head(t).n * UnitLen(Head(t).c) + Units(Tail(t))
RECURSIVE Bytes(_)
Bytes(t) == IF t = <<>> THEN 0 ELSE Head(t).n * ByteLen(Head(t).c) + Bytes(Tail(t))

\* String.prototype.slice(0, k): the first k code units of t.  A cut inside
\* a multi-unit literal leaves its first units, written as a "prefix" run;
\* a cut inside a surrogate pair leaves the high surrogate alone.
RECURSIVE Slice(_, _)
Slice(t, k) ==
    IF t = <<>> \/ k <= 0 THEN <<>>
    ELSE LET h == Head(t)
             w == UnitLen(h.c)
         IN IF h.n * w <= k THEN <<h>> \o Slice(Tail(t), k - h.n * w)
            ELSE IF w = 1 THEN <<[h EXCEPT !.n = k]>>
            ELSE (IF k \div w > 0 THEN <<[h EXCEPT !.n = k \div w]>> ELSE <<>>)
                 \o Rep(IF h.c = "emoji" THEN "high surrogate" ELSE "prefix of **** File:",
                        k % w)

\* ------------------------------------------------------------- file system
\* The repository tree: readdir order of every directory.
Root == <<>>
Children(dir) ==
    CASE dir = Root -> <<"a.txt", "sub", "b.bin", "lnk", ".git">>
      [] dir = <<"sub">> -> <<"c.txt", "node_modules">>
      [] dir = <<"sub", "node_modules">> -> <<"x.js">>
      [] dir = <<".git">> -> <<"HEAD">>
      [] OTHER -> <<>>

DirPaths == {Root, <<"sub">>, <<"sub", "node_modules">>, <<".git">>}
FilePaths == {<<"a.txt">>, <<"b.bin">>, <<"sub", "c.txt">>,
              <<"sub", "node_modules", "x.js">>, <<".git", "HEAD">>}
\* entry.isDirectory() / entry.isFile(); lnk is a symbolic link
EntryKind(path) ==
    IF path \in DirPaths THEN "dir" ELSE IF path \in FilePaths THEN "file" ELSE "other"

\* a file: its bytes and which of stat / probe / read fails on it
File(content, fault) == [content |-> content, size |-> Bytes(content), fault |-> fault]

Hello == Rep("a", SmallThresholdBytes)
Accents == Rep("eacute", SmallThresholdBytes - 2)
Longer == Rep("a", SmallThresholdBytes + 1)
Kilo == Rep("a", 1501)
Huge == Rep("a", 104858)
Nuls == Rep("NUL", SmallThresholdBytes - 1)
ManyNuls == Rep("NUL", SmallThresholdBytes + 2)
HeaderLike == <<FileLine(<<"a.txt">>, 5), NL>>

ProfilesA == {File(Hello, "none"), File(Accents, "none"), File(Kilo, "none"),
              File(HeaderLike, "none"), File(Longer, "stat")}
ProfilesB == {File(Nuls, "none"), File(ManyNuls, "none"),
              File(Hello, "probe"), File(Hello, "read")}
ProfilesC == {File(Hello, "none"), File(Longer, "none"), File(Huge, "none")}
Plain == File(Rep("a", 2), "none")

Trees ==
    {[files |-> (<<"a.txt">> :> a) @@ (<<"b.bin">> :> b) @@ (<<"sub", "c.txt">> :> c)
                @@ (<<"sub", "node_modules", "x.js">> :> Plain) @@ (<<".git", "HEAD">> :> Plain),
      badDir |-> d] :
        a \in ProfilesA, b \in ProfilesB, c \in ProfilesC,
        d \in {<<"none">>, Root, <<"sub">>}}

\* ---------------------------------------------------------------- options
\* a glob pattern is its "/"-separated segments; "" is the empty sequence
EmptyPattern == <<>>
alwaysIgnored == << <<"node_modules">>, <<".git">> >>
\* cli.flags.ignore.split(','): the flag is the list of patterns the user
\* wrote between commas; the empty string splits into one empty pattern
Split(flag) == IF flag = <<>> THEN <<EmptyPattern>> ELSE flag
\* main: ignorePatterns: cli.flags.ignore.split(',').concat(alwaysIgnored)
MainIgnorePatterns(flag) == Split(flag) \o alwaysIgnored

IgnoreFlags == {<<>>, << <<"sub", "**">> >>, << <<"sub">> >>}
\* options.ignorePatterns: a list of patterns, or undefined when the caller
\* of processFiles passes none
Undefined == [defined |-> FALSE, list |-> <<>>]
PatternList(l) == [defined |-> TRUE, list |-> l]
Thresholds == {[num |-> SmallThresholdBytes, den |-> MB], [num |-> 1, den |-> 10]}

Options ==
    [threshold : Thresholds, includeAll : BOOLEAN, truncate : BOOLEAN,
     maxFiles : 0..MaxMaxFiles,
     ignorePatterns : {Undefined} \cup {PatternList(MainIgnorePatterns(f)) : f \in IgnoreFlags}]

VARIABLES tree, options, status, stack, output,
          processedFiles, skippedFiles, omittedFiles, listed, log,
          env, mpc, err, url, tempDir, disk, calls,
          clock, runs, tmp

\* the state of processFiles, and the state of main around it: the
\* environment of the run (env), the position in main (mpc), the error
\* thrown (err), main's locals url and tempDir, the temporary directory and
\* the output file (disk), and the calls made so far (calls)
walkVars == <<tree, options, status, stack, output,
              processedFiles, skippedFiles, omittedFiles, listed, log>>
mainVars == <<env, mpc, err, url, tempDir, disk, calls>>
\* concurrent downloads: the millisecond clock Date.now() reads, the
\* position and the directory of each run, and the temporary directories
\* by name
concVars == <<clock, runs, tmp>>
vars == <<tree, options, status, stack, output,
          processedFiles, skippedFiles, omittedFiles, listed, log,
          env, mpc, err, url, tempDir, disk, calls,
          clock, runs, tmp>>

\* ------------------------------------------------------------- minimatch
\* a segment starting with "." is matched by neither * nor ** (dot: false)
Dot(seg) == seg \in {".git"}
\* one path segment against one pattern segment that is not **
SegMatch(seg, pseg) == IF pseg = "*" THEN ~Dot(seg) ELSE seg = pseg

\* Minimatch.matchOne(file, pattern): segment-wise match, ** swallowing
\* zero or more leading segments of the rest of the path
RECURSIVE matchOne(_, _)
RECURSIVE Swallow(_, _)
matchOne(file, pattern) ==
    IF file = <<>> \/ pattern = <<>> THEN file = <<>> /\ pattern = <<>>
    ELSE IF Head(pattern) = "**" THEN
        IF Len(pattern) = 1 THEN \A i \in 1..Len(file) : ~Dot(file[i])
        ELSE Swallow(file, Tail(pattern))
    ELSE SegMatch(Head(file), Head(pattern)) /\ matchOne(Tail(file), Tail(pattern))
Swallow(file, rest) ==
    IF file = <<>> THEN FALSE
    ELSE IF matchOne(file, rest) THEN TRUE
    ELSE IF Dot(Head(file)) THEN FALSE
    ELSE Swallow(Tail(file), rest)

\* minimatch(relativePath, pattern); the empty pattern matches only ""
minimatch(rel, pattern) ==
    IF pattern = EmptyPattern THEN rel = <<>> ELSE matchOne(rel, pattern)

\* options.ignorePatterns && options.ignorePatterns.some(p => minimatch(rel, p))
IsIgnored(rel) ==
    /\ options.ignorePatterns.defined
    /\ \E i \in 1..Len(options.ignorePatterns.list) :
          minimatch(rel, options.ignorePatterns.list[i])

\* (variant) the directory loop without its ignore check
DirectoryIgnoredNever(rel) == FALSE
\* second loop: the ignore test on the directory's relative path
DirectoryIgnored(rel) == IsIgnored(rel)

\* ---------------------------------------------------------- processFiles
\* thresholdBytes = options.threshold * 1024 * 1024, a fraction when the
\* threshold in MB is one; SliceEnd is the integer slice() makes of it
SliceEnd == (options.threshold.num * MB) \div options.threshold.den
\* (variant) the size test with >= in place of >
ExceedsThresholdInclusive(size) == size >= SliceEnd
\* stats.size > thresholdBytes: for an integer size, size > x exactly when
\* size > floor(x)
ExceedsThreshold(size) == size > SliceEnd

\* isBinaryFile(): a NUL byte in the sampled bytes
isBinaryFile(f) == \E i \in 1..Len(f.content) : f.content[i].c = "NUL"

\* (variant) the size check taken only when truncation is on
SkipsLargeWhenTruncating(f) == ~options.includeAll /\ ExceedsThreshold(f.size) /\ options.truncate
\* !options.includeAll && stats.size > thresholdBytes && !options.truncate
SkipsLarge(f) == ~options.includeAll /\ ExceedsThreshold(f.size) /\ ~options.truncate
\* (variant) the binary probe left out when truncation is on
ProbesUnlessTruncating == ~options.includeAll /\ ~options.truncate
\* (variants) the binary probe run always / never
ProbesAlways == TRUE
ProbesNever == FALSE
\* the binary probe runs only when includeAll is off
Probes == ~options.includeAll
\* (variant) the limit test without its "maxFiles is set" guard
OverLimitUnguarded == processedFiles >= options.maxFiles
\* (variant) the limit compared with > instead of >=
OverLimitLate == options.maxFiles # 0 /\ processedFiles > options.maxFiles
\* options.maxFiles && processedFiles >= options.maxFiles
OverLimit == options.maxFiles # 0 /\ processedFiles >= options.maxFiles
\* options.truncate && stats.size > thresholdBytes
Truncates(f) == options.truncate /\ ExceedsThreshold(f.size)

\* what the body of the try block does with the file at `path`, in the
\* order of its statements; a throw of stat, probe or read lands in catch
Classify(path) ==
    LET f == tree.files[path] IN
    IF f.fault = "stat" THEN "stat-error"
    ELSE IF SkipsLarge(f) THEN "large"
    ELSE IF Probes /\ f.fault = "probe" THEN "probe-error"
    ELSE IF Probes /\ isBinaryFile(f) THEN "binary"
    ELSE IF IsIgnored(path) THEN "ignored"
    ELSE IF f.fault = "read" THEN "read-error"
    ELSE IF OverLimit THEN "omit"
    ELSE "emit"

\* the content written for an emitted file
Content(f) ==
    IF Truncates(f)
    THEN Slice(f.content, SliceEnd) \o <<NL, NL, TruncatedLine, NL>>
    ELSE f.content

\* "\n**** File: <rel>, size: <size>\n\n" + content + "\n"
Fragment(path) ==
    LET f == tree.files[path] IN
    <<NL, FileLine(path, f.size), NL, NL>> \o Content(f) \o <<NL>>

\* the text of the first omitted file: header and notice
CutoffMarker(path) ==
    <<NL, FileLine(path, tree.files[path].size), NL, CutoffLine, NL>>

Top == stack[Len(stack)]
SetTop(fr) == [stack EXCEPT ![Len(stack)] = fr]
Frame(dir, phase) == [dir |-> dir, phase |-> phase, i |-> 1]
InLoop(phase) ==
    /\ status = "Walking"
    /\ stack # <<>>
    /\ Top.phase = phase
    /\ Top.i <= Len(Children(Top.dir))
LoopOver(phase) ==
    /\ status = "Walking"
    /\ stack # <<>>
    /\ Top.phase = phase
    /\ Top.i > Len(Children(Top.dir))
\* fullPath = path.join(dir, entry.name); relative to the root it is the
\* same sequence of segments
Entry == Append(Top.dir, Children(Top.dir)[Top.i])
Continue == stack' = SetTop([Top EXCEPT !.i = @ + 1])

\* the two runs of the concurrency model, and no such run going on
Runs == {1, 2}
NoRuns ==
    /\ clock = 0
    /\ runs = [r \in Runs |-> [pc |-> "idle", dir |-> 0]]
    /\ tmp = <<>>

\* processFiles called on its own, as the tests do: no main around it
NoEnv == [test |-> TRUE, input |-> <<>>, flags |-> <<>>, rmFails |-> FALSE]
NoDisk == [temp |-> "absent", out |-> [exists |-> FALSE, content |-> <<>>]]
Init ==
    /\ env = NoEnv
    /\ mpc = "processFiles"
    /\ err = ""
    /\ url = <<>>
    /\ tempDir = FALSE
    /\ disk = NoDisk
    /\ calls = <<>>
    /\ NoRuns
    /\ tree \in Trees
    /\ options \in Options
    /\ status = "Walking"
    /\ stack = <<Frame(Root, "list")>>
    /\ output = <<>>
    /\ processedFiles = 0
    /\ skippedFiles = 0
    /\ omittedFiles = 0
    /\ listed = {}
    /\ log = <<>>

\* const entries = await fs.readdir(dir, { withFileTypes: true })
ReadDir ==
    /\ status = "Walking" /\ stack # <<>> /\ Top.phase = "list"
    /\ Top.dir # tree.badDir
    /\ stack' = SetTop([Top EXCEPT !.phase = "files"])
    /\ listed' = listed \cup {Top.dir}
    /\ UNCHANGED <<tree, options, status, output, processedFiles, skippedFiles,
                   omittedFiles, log>>
    /\ UNCHANGED mainVars
    /\ UNCHANGED concVars

\* readdir throws: every pending processDirectory call is abandoned and
\* processFiles rethrows from its catch
ReadDirFails ==
    /\ status = "Walking" /\ stack # <<>> /\ Top.phase = "list"
    /\ Top.dir = tree.badDir
    /\ status' = "Failed"
    /\ stack' = <<>>
    /\ UNCHANGED <<tree, options, output, processedFiles, skippedFiles,
                   omittedFiles, listed, log>>
    /\ UNCHANGED mainVars
    /\ UNCHANGED concVars

\* (variant) a single loop that recurses into a directory where it meets it
DeferDirectoryRecursing ==
    /\ InLoop("files") /\ EntryKind(Entry) = "dir"
    /\ output' = output \o <<NL, DirLine(Entry)>>
    /\ stack' = Append(SetTop([Top EXCEPT !.i = @ + 1]), Frame(Entry, "list"))
    /\ UNCHANGED <<tree, options, status, processedFiles, skippedFiles,
                   omittedFiles, listed, log>>
    /\ UNCHANGED mainVars
    /\ UNCHANGED concVars

\* first loop, entry.isDirectory(): continue
DeferDirectory ==
    /\ InLoop("files") /\ EntryKind(Entry) = "dir"
    /\ Continue
    /\ UNCHANGED <<tree, options, status, output, processedFiles, skippedFiles,
                   omittedFiles, listed, log>>
    /\ UNCHANGED mainVars
    /\ UNCHANGED concVars

\* (variant) an entry that is no file counted as skipped
SkipNonFileCounted ==
    /\ InLoop("files") /\ EntryKind(Entry) = "other"
    /\ Continue
    /\ skippedFiles' = skippedFiles + 1
    /\ UNCHANGED <<tree, options, status, output, processedFiles,
                   omittedFiles, listed, log>>
    /\ UNCHANGED mainVars
    /\ UNCHANGED concVars

\* (variant) the loop not moving past an entry that is neither a file nor
\* a directory
SkipNonFileStuck ==
    /\ InLoop("files") /\ EntryKind(Entry) = "other"
    /\ UNCHANGED <<tree, options, status, stack, output, processedFiles, skippedFiles,
                   omittedFiles, listed, log>>
    /\ UNCHANGED mainVars
    /\ UNCHANGED concVars

\* first loop, !entry.isFile(): continue
SkipNonFile ==
    /\ InLoop("files") /\ EntryKind(Entry) = "other"
    /\ Continue
    /\ UNCHANGED <<tree, options, status, output, processedFiles, skippedFiles,
                   omittedFiles, listed, log>>
    /\ UNCHANGED mainVars
    /\ UNCHANGED concVars

Logged(outcome, text) == log' = Append(log, [path |-> Entry, outcome |-> outcome, text |-> text])

\* (variant) no catch around the file: an error of stat, probe or read
\* ends the walk
SkipFileUncaught ==
    /\ InLoop("files") /\ EntryKind(Entry) = "file"
    /\ Classify(Entry) \notin {"omit", "emit"}
    /\ IF Classify(Entry) \in {"stat-error", "probe-error", "read-error"}
       THEN /\ status' = "Failed"
            /\ stack' = <<>>
            /\ UNCHANGED <<skippedFiles, log>>
       ELSE /\ skippedFiles' = skippedFiles + 1
            /\ Logged(Classify(Entry), <<>>)
            /\ Continue
            /\ UNCHANGED status
    /\ UNCHANGED <<tree, options, output, processedFiles, omittedFiles, listed>>
    /\ UNCHANGED mainVars
    /\ UNCHANGED concVars

\* the file is skipped: too large, binary, ignored, or an error caught
SkipFile ==
    /\ InLoop("files") /\ EntryKind(Entry) = "file"
    /\ Classify(Entry) \notin {"omit", "emit"}
    /\ skippedFiles' = skippedFiles + 1
    /\ Logged(Classify(Entry), <<>>)
    /\ Continue
    /\ UNCHANGED <<tree, options, status, output, processedFiles, omittedFiles, listed>>
    /\ UNCHANGED mainVars
    /\ UNCHANGED concVars

\* (variant) the notice written for every omitted file, not only the first
OmitFileMarking ==
    /\ InLoop("files") /\ EntryKind(Entry) = "file"
    /\ Classify(Entry) = "omit"
    /\ omittedFiles' = omittedFiles + 1
    /\ output' = output \o CutoffMarker(Entry)
    /\ Logged("omit", <<>>)
    /\ Continue
    /\ UNCHANGED <<tree, options, status, processedFiles, skippedFiles, listed>>
    /\ UNCHANGED mainVars
    /\ UNCHANGED concVars

\* the file is past the max-files limit
OmitFile ==
    /\ InLoop("files") /\ EntryKind(Entry) = "file"
    /\ Classify(Entry) = "omit"
    /\ omittedFiles' = omittedFiles + 1
    /\ output' = IF omittedFiles' = 1 THEN output \o CutoffMarker(Entry) ELSE output
    /\ Logged("omit", <<>>)
    /\ Continue
    /\ UNCHANGED <<tree, options, status, processedFiles, skippedFiles, listed>>
    /\ UNCHANGED mainVars
    /\ UNCHANGED concVars

\* (variant) the fragment written without counting the file
EmitFileUncounted ==
    /\ InLoop("files") /\ EntryKind(Entry) = "file"
    /\ Classify(Entry) = "emit"
    /\ output' = output \o Fragment(Entry)
    /\ Logged("emit", Content(tree.files[Entry]))
    /\ Continue
    /\ UNCHANGED <<tree, options, status, processedFiles, skippedFiles, omittedFiles, listed>>
    /\ UNCHANGED mainVars
    /\ UNCHANGED concVars

\* the file is written to the output
EmitFile ==
    /\ InLoop("files") /\ EntryKind(Entry) = "file"
    /\ Classify(Entry) = "emit"
    /\ output' = output \o Fragment(Entry)
    /\ processedFiles' = processedFiles + 1
    /\ Logged("emit", Content(tree.files[Entry]))
    /\ Continue
    /\ UNCHANGED <<tree, options, status, skippedFiles, omittedFiles, listed>>
    /\ UNCHANGED mainVars
    /\ UNCHANGED concVars

\* the first loop is over: the second loop starts
FilesDone ==
    /\ LoopOver("files")
    /\ stack' = SetTop(Frame(Top.dir, "dirs"))
    /\ UNCHANGED <<tree, options, status, output, processedFiles, skippedFiles,
                   omittedFiles, listed, log>>
    /\ UNCHANGED mainVars
    /\ UNCHANGED concVars

\* second loop, entry is no directory
PassNonDirectory ==
    /\ InLoop("dirs") /\ EntryKind(Entry) # "dir"
    /\ Continue
    /\ UNCHANGED <<tree, options, status, output, processedFiles, skippedFiles,
                   omittedFiles, listed, log>>
    /\ UNCHANGED mainVars
    /\ UNCHANGED concVars

\* second loop, the directory matches an ignore pattern: continue
SkipIgnoredDirectory ==
    /\ InLoop("dirs") /\ EntryKind(Entry) = "dir"
    /\ DirectoryIgnored(Entry)
    /\ Continue
    /\ UNCHANGED <<tree, options, status, output, processedFiles, skippedFiles,
                   omittedFiles, listed, log>>
    /\ UNCHANGED mainVars
    /\ UNCHANGED concVars

\* second loop: header, then await processDirectory(fullPath)
EnterDirectory ==
    /\ InLoop("dirs") /\ EntryKind(Entry) = "dir"
    /\ ~DirectoryIgnored(Entry)
    /\ output' = output \o <<NL, DirLine(Entry)>>
    /\ stack' = Append(SetTop([Top EXCEPT !.i = @ + 1]), Frame(Entry, "list"))
    /\ UNCHANGED <<tree, options, status, processedFiles, skippedFiles,
                   omittedFiles, listed, log>>
    /\ UNCHANGED mainVars
    /\ UNCHANGED concVars

\* a recursive processDirectory call returns
Return ==
    /\ LoopOver("dirs") /\ Len(stack) > 1
    /\ stack' = SubSeq(stack, 1, Len(stack) - 1)
    /\ UNCHANGED <<tree, options, status, output, processedFiles, skippedFiles,
                   omittedFiles, listed, log>>
    /\ UNCHANGED mainVars
    /\ UNCHANGED concVars

\* (variant) the summary line written without the test omittedFiles > 0
FinishSummarising ==
    /\ LoopOver("dirs") /\ Len(stack) = 1
    /\ output' = output \o <<NL, NL, SummaryLine(omittedFiles), NL>>
    /\ status' = "Succeeded"
    /\ stack' = <<>>
    /\ UNCHANGED <<tree, options, processedFiles, skippedFiles, omittedFiles,
                   listed, log>>
    /\ UNCHANGED mainVars
    /\ UNCHANGED concVars

\* processDirectory(directory) returns: summary line, return output
Finish ==
    /\ LoopOver("dirs") /\ Len(stack) = 1
    /\ output' = IF omittedFiles > 0
                 THEN output \o <<NL, NL, SummaryLine(omittedFiles), NL>>
                 ELSE output
    /\ status' = "Succeeded"
    /\ stack' = <<>>
    /\ UNCHANGED <<tree, options, processedFiles, skippedFiles, omittedFiles,
                   listed, log>>
    /\ UNCHANGED mainVars
    /\ UNCHANGED concVars

Next ==
    \/ ReadDir \/ ReadDirFails
    \/ DeferDirectory \/ SkipNonFile
    \/ SkipFile \/ OmitFile \/ EmitFile
    \/ FilesDone
    \/ PassNonDirectory \/ SkipIgnoredDirectory \/ EnterDirectory
    \/ Return \/ Finish

Spec == Init /\ [][Next]_vars

\* every await of the walk settles: a step that can be taken is taken
FairSpec == Init /\ [][Next]_vars /\ WF_vars(Next)

\* ---------------------------------------------------- repository references
\* A URL is the sequence of its tokens: "https://", "github.com", "/", a
\* name, ... ; Words are the tokens made of [\w-] characters only.
Words == {"user", "repo"}
Schemes == {<<>>, <<"https://">>, <<"http://">>, <<"git@">>}
Hosts == {<<>>, <<"github.com", "/">>, <<"github.com", ":">>, <<"gitlab.com", "/">>}
Paths == {<<"user", "/", "repo">>, <<"user", "/", "repo", ".git">>,
          <<"user", "/", "repo", "/">>, <<"user">>}
Urls == {s \o h \o p : s \in Schemes, h \in Hosts, p \in Paths}
\* cli.input: no argument, or one URL
Inputs == {<<>>} \cup {<<u>> : u \in Urls}

\* url.includes(tok)
Includes(u, tok) == \E i \in 1..Len(u) : u[i] = tok
\* url.startsWith(pre)
StartsWith(u, pre) == Len(u) >= Len(pre) /\ SubSeq(u, 1, Len(pre)) = pre
\* url.match(/^[\w-]+\/[\w-]+$/)
IsShortForm(u) == Len(u) = 3 /\ u[1] \in Words /\ u[2] = "/" /\ u[3] \in Words
\* url.replace(/\/+$/, '')
RECURSIVE StripSlashes(_)
StripSlashes(u) ==
    IF u # <<>> /\ u[Len(u)] = "/" THEN StripSlashes(SubSeq(u, 1, Len(u) - 1)) ELSE u

\* how a call ends: it returns a value, throws an Error with a message, or
\* prints the message and ends the process
Returned(v) == [kind |-> "returned", value |-> v, message |-> ""]
Thrown(m) == [kind |-> "thrown", value |-> <<>>, message |-> m]
Exited(m) == [kind |-> "exited", value |-> <<>>, message |-> m]

\* (variant) validateInput without the check for a missing argument: input[0]
\* is undefined and url.includes throws a TypeError
validateInputUnchecked(input) ==
    IF input = <<>> THEN Thrown("Cannot read properties of undefined")
    ELSE IF ~Includes(input[1], "github.com") /\ ~IsShortForm(input[1])
    THEN Thrown("Only GitHub repositories are supported")
    ELSE Returned(input[1])
\* validateInput(input)
validateInput(input) ==
    IF input = <<>> THEN Thrown("Repository URL is required")
    ELSE IF ~Includes(input[1], "github.com") /\ ~IsShortForm(input[1])
    THEN Thrown("Only GitHub repositories are supported")
    ELSE Returned(input[1])
\* validateInput(input) of index.js: console.error, then process.exit(1)
validateInput_index_js(input) ==
    IF input = <<>> THEN Exited("Repository URL is required")
    ELSE IF ~Includes(input[1], "github.com") /\ ~IsShortForm(input[1])
    THEN Exited("Only GitHub repositories are supported")
    ELSE Returned(input[1])

\* normalizeGitHubUrl(url)
normalizeGitHubUrl(u) ==
    LET s == StripSlashes(u) IN
    IF StartsWith(s, <<"git@", "github.com", ":">>) THEN Returned(s)
    ELSE IF StartsWith(s, <<"https://", "github.com", "/">>) THEN Returned(s)
    ELSE IF IsShortForm(s) THEN Returned(<<"https://", "github.com", "/">> \o s)
    ELSE Thrown("Invalid GitHub URL")

\* ------------------------------------------------------------------ main
\* the --threshold flag: not given, or given with a value
NotGiven == [given |-> FALSE, value |-> [num |-> 0, den |-> 1]]
Given(v) == [given |-> TRUE, value |-> v]
\* flags.threshold.default
DefaultThreshold == [num |-> 1, den |-> 10]
\* cli.flags.threshold
CliThreshold(arg) == IF arg.given THEN arg.value ELSE DefaultThreshold
\* the options object main passes to processFiles
MainOptions(flags) ==
    [threshold |-> CliThreshold(flags.threshold),
     includeAll |-> flags.includeAll,
     ignorePatterns |-> PatternList(MainIgnorePatterns(flags.ignore)),
     truncate |-> flags.truncate,
     maxFiles |-> flags.maxFiles]

\* a file that slice() cuts inside a surrogate pair when the threshold is
\* SmallThresholdBytes
Emojis == Rep("a", (SmallThresholdBytes + 1) % 2) \o Rep("emoji", SmallThresholdBytes)

MainUrls == {<<"https://", "github.com", "/", "user", "/", "repo">>,
             <<"user", "/", "repo">>,
             <<"https://", "gitlab.com", "/", "user", "/", "repo">>,
             <<"http://", "github.com", "/", "user", "/", "repo">>}
MainFlags ==
    [threshold : {NotGiven, Given([num |-> SmallThresholdBytes, den |-> MB])},
     truncate : BOOLEAN, includeAll : {FALSE}, maxFiles : {0, 1},
     ignore : {<<>>, << <<"sub">> >>}]
\* the environment of a run: NODE_ENV === 'test', cli.input, cli.flags, and
\* whether fs.rm fails on the temporary directory (busy, not permitted)
MainEnvs ==
    [test : BOOLEAN, input : {<<>>} \cup {<<u>> : u \in MainUrls}, flags : MainFlags,
     rmFails : BOOLEAN]
MainTrees ==
    {[files |-> (<<"a.txt">> :> a) @@ (<<"b.bin">> :> File(Nuls, "none"))
                @@ (<<"sub", "c.txt">> :> c)
                @@ (<<"sub", "node_modules", "x.js">> :> Plain) @@ (<<".git", "HEAD">> :> Plain),
      badDir |-> d] :
        a \in {File(Hello, "none"), File(Emojis, "none"), File(Longer, "stat")},
        c \in {File(Hello, "none"), File(Huge, "none")},
        d \in {<<"none">>, <<"sub">>}}

\* processFiles has not been called
IdleWalk ==
    /\ status = "Idle"
    /\ stack = <<>>
    /\ output = <<>>
    /\ processedFiles = 0
    /\ skippedFiles = 0
    /\ omittedFiles = 0
    /\ listed = {}
    /\ log = <<>>

MainInit ==
    /\ env \in MainEnvs
    /\ mpc = "validateInput"
    /\ err = ""
    /\ url = <<>>
    /\ tempDir = FALSE
    /\ disk = NoDisk
    /\ calls = <<>>
    /\ NoRuns
    /\ tree \in MainTrees
    /\ options = MainOptions(env.flags)
    /\ IdleWalk

Called(fn, how) == calls' = Append(calls, <<fn, how>>)

\* const url = await validateInput(cli.input), in test mode nothing else
ValidateInputReturns ==
    /\ mpc = "validateInput"
    /\ validateInput(env.input).kind = "returned"
    /\ url' = validateInput(env.input).value
    /\ mpc' = IF env.test THEN "finally" ELSE "normalizeGitHubUrl"
    /\ Called("validateInput", "returned")
    /\ UNCHANGED <<env, err, tempDir, disk>>
    /\ UNCHANGED walkVars
    /\ UNCHANGED concVars

\* validateInput throws: main's catch
ValidateInputThrows ==
    /\ mpc = "validateInput"
    /\ validateInput(env.input).kind = "thrown"
    /\ err' = validateInput(env.input).message
    /\ mpc' = "catch"
    /\ Called("validateInput", "thrown")
    /\ UNCHANGED <<env, url, tempDir, disk>>
    /\ UNCHANGED walkVars
    /\ UNCHANGED concVars

\* downloadRepository(url): const normalizedUrl = normalizeGitHubUrl(url)
NormalizeUrl ==
    /\ mpc = "normalizeGitHubUrl"
    /\ Called("downloadRepository", normalizeGitHubUrl(url).kind)
    /\ IF normalizeGitHubUrl(url).kind = "returned"
       THEN mpc' = "mkdir" /\ err' = err
       ELSE mpc' = "downloadCatch" /\ err' = normalizeGitHubUrl(url).message
    /\ UNCHANGED <<env, url, tempDir, disk>>
    /\ UNCHANGED walkVars
    /\ UNCHANGED concVars

\* await fs.mkdir(tempDir, { recursive: true })
Mkdir ==
    /\ mpc = "mkdir"
    /\ disk' = [disk EXCEPT !.temp = "empty"]
    /\ mpc' = "clone"
    /\ UNCHANGED <<env, err, url, tempDir, calls>>
    /\ UNCHANGED walkVars
    /\ UNCHANGED concVars

\* await execAsync(`git clone --depth 1 ...`): the clone fills the
\* directory, leaves it empty (a repository without files), or fails
Clone ==
    /\ mpc = "clone"
    /\ \E result \in {"cloned", "empty", "failed"} :
          /\ disk' = [disk EXCEPT !.temp = IF result = "cloned" THEN "cloned" ELSE @]
          /\ mpc' = IF result = "failed" THEN "downloadCatch" ELSE "verify"
          /\ err' = IF result = "failed" THEN "Command failed: git clone" ELSE err
    /\ UNCHANGED <<env, url, tempDir, calls>>
    /\ UNCHANGED walkVars
    /\ UNCHANGED concVars

\* files.length === 0: throw; else return { tempDir, repoName }, which
\* main stores in tempDir
VerifyDownload ==
    /\ mpc = "verify"
    /\ IF disk.temp = "empty"
       THEN /\ err' = "Repository appears to be empty"
            /\ mpc' = "downloadCatch"
            /\ UNCHANGED tempDir
       ELSE /\ tempDir' = TRUE
            /\ mpc' = "processFiles"
            /\ UNCHANGED err
    /\ UNCHANGED <<env, url, disk, calls>>
    /\ UNCHANGED walkVars
    /\ UNCHANGED concVars

\* (variant) fs.rm without recursive: true, which fails on a directory
\* that has entries
cleanupNonRecursive ==
    /\ disk' = [disk EXCEPT !.temp = IF env.rmFails \/ @ = "cloned" THEN @ ELSE "absent"]
    /\ Called("cleanup", disk.temp)
\* cleanup(directory): fs.rm(directory, { recursive: true, force: true })
\* removes the tree, or does nothing when there is none; an error of fs.rm
\* is caught and only reported.  The call is recorded with the state the
\* directory was in.
cleanup ==
    /\ disk' = [disk EXCEPT !.temp = IF env.rmFails THEN @ ELSE "absent"]
    /\ Called("cleanup", disk.temp)

\* (variant) the catch of downloadRepository without its cleanup
DownloadCatchLeaving ==
    /\ mpc = "downloadCatch"
    /\ mpc' = "catch"
    /\ UNCHANGED <<env, err, url, tempDir, disk, calls>>
    /\ UNCHANGED walkVars
    /\ UNCHANGED concVars
\* catch of downloadRepository: await cleanup(tempDir); throw error
DownloadCatch ==
    /\ mpc = "downloadCatch"
    /\ cleanup
    /\ mpc' = "catch"
    /\ UNCHANGED <<env, err, url, tempDir>>
    /\ UNCHANGED walkVars
    /\ UNCHANGED concVars

\* const content = await processFiles(tempDir, { ... })
CallProcessFiles ==
    /\ mpc = "processFiles" /\ status = "Idle"
    /\ status' = "Walking"
    /\ stack' = <<Frame(Root, "list")>>
    /\ Called("processFiles", "called")
    /\ UNCHANGED <<tree, options, output, processedFiles, skippedFiles,
                   omittedFiles, listed, log>>
    /\ UNCHANGED <<env, mpc, err, url, tempDir, disk>>
    /\ UNCHANGED concVars

\* (variant) main without the test of the content
ProcessFilesReturnsUnchecked ==
    /\ mpc = "processFiles" /\ status = "Succeeded"
    /\ mpc' = "writeOutput"
    /\ UNCHANGED <<env, err, url, tempDir, disk, calls>>
    /\ UNCHANGED walkVars
    /\ UNCHANGED concVars

\* processFiles returned: if (!content) throw, else go on to writeOutput
ProcessFilesReturns ==
    /\ mpc = "processFiles" /\ status = "Succeeded"
    /\ IF output = <<>>
       THEN /\ err' = "No content was generated from the repository"
            /\ mpc' = "catch"
       ELSE /\ mpc' = "writeOutput"
            /\ UNCHANGED err
    /\ UNCHANGED <<env, url, tempDir, disk, calls>>
    /\ UNCHANGED walkVars
    /\ UNCHANGED concVars

\* processFiles threw
ProcessFilesThrows ==
    /\ mpc = "processFiles" /\ status = "Failed"
    /\ err' = "readdir failed"
    /\ mpc' = "catch"
    /\ UNCHANGED <<env, url, tempDir, disk, calls>>
    /\ UNCHANGED walkVars
    /\ UNCHANGED concVars

\* fs.writeFile(outputPath, content) stores the UTF-8 encoding of the
\* string; Utf8 is what decoding the stored bytes gives back: a surrogate
\* without its pair is encoded as U+FFFD
RECURSIVE Utf8(_)
Utf8(t) ==
    IF t = <<>> THEN <<>>
    ELSE <<IF Head(t).c = "high surrogate" THEN [Head(t) EXCEPT !.c = "U+FFFD"] ELSE Head(t)>>
         \o Utf8(Tail(t))

\* (variant) writeOutput that swallows the error of writeFile
WriteOutputSwallowing ==
    /\ mpc = "writeOutput"
    /\ \E writeFails \in BOOLEAN :
          /\ disk' = IF writeFails THEN disk
                     ELSE [disk EXCEPT !.out = [exists |-> TRUE, content |-> Utf8(output)]]
          /\ mpc' = "finally"
          /\ UNCHANGED err
          /\ Called("writeOutput", IF writeFails THEN "write-failed" ELSE "written")
    /\ UNCHANGED <<env, url, tempDir>>
    /\ UNCHANGED walkVars
    /\ UNCHANGED concVars
\* await writeOutput(content, outputPath): writeFile, and on its error
\* throw error
WriteOutput ==
    /\ mpc = "writeOutput"
    /\ \E writeFails \in BOOLEAN :
          IF writeFails
          THEN /\ err' = "write failed"
               /\ mpc' = "catch"
               /\ Called("writeOutput", "write-failed")
               /\ UNCHANGED disk
          ELSE /\ disk' = [disk EXCEPT !.out = [exists |-> TRUE, content |-> Utf8(output)]]
               /\ mpc' = "finally"
               /\ Called("writeOutput", "written")
               /\ UNCHANGED err
    /\ UNCHANGED <<env, url, tempDir>>
    /\ UNCHANGED walkVars
    /\ UNCHANGED concVars

\* catch of main: in test mode throw error, which runs finally first;
\* else exit(1), which is process.exit(1): the process ends there
MainCatch ==
    /\ mpc = "catch"
    /\ mpc' = IF env.test THEN "finally" ELSE "exited"
    /\ UNCHANGED <<env, err, url, tempDir, disk, calls>>
    /\ UNCHANGED walkVars
    /\ UNCHANGED concVars

\* finally of main: if (tempDir) await cleanup(tempDir); then main
\* resolves, or rejects with the error rethrown
MainFinally ==
    /\ mpc = "finally"
    /\ IF tempDir
       THEN cleanup
       ELSE UNCHANGED <<disk, calls>>
    /\ mpc' = IF err = "" THEN "resolved" ELSE "rejected"
    /\ UNCHANGED <<env, err, url, tempDir>>
    /\ UNCHANGED walkVars
    /\ UNCHANGED concVars

MainNext ==
    \/ ValidateInputReturns \/ ValidateInputThrows
    \/ NormalizeUrl \/ Mkdir \/ Clone \/ VerifyDownload \/ DownloadCatch
    \/ CallProcessFiles
    \/ ReadDir \/ ReadDirFails
    \/ DeferDirectory \/ SkipNonFile
    \/ SkipFile \/ OmitFile \/ EmitFile
    \/ FilesDone
    \/ PassNonDirectory \/ SkipIgnoredDirectory \/ EnterDirectory
    \/ Return \/ Finish
    \/ ProcessFilesReturns \/ ProcessFilesThrows
    \/ WriteOutput
    \/ MainCatch \/ MainFinally

MainSpec == MainInit /\ [][MainNext]_vars

\* ---------------------------------------------- validateInput on its own
NoTree == [files |-> <<>>, badDir |-> <<"none">>]
ValidateInit ==
    /\ env \in [test : {TRUE}, input : Inputs, flags : {<<>>}, rmFails : {FALSE}]
    /\ mpc = "validateInput"
    /\ err = ""
    /\ url = <<>>
    /\ tempDir = FALSE
    /\ disk = NoDisk
    /\ calls = <<>>
    /\ NoRuns
    /\ tree = NoTree
    /\ options = MainOptions([threshold |-> NotGiven, truncate |-> FALSE,
                              includeAll |-> FALSE, maxFiles |-> 0, ignore |-> <<>>])
    /\ IdleWalk

\* the caller awaits validateInput(input) of part_005 and sees how it ends
ApplyValidateInput ==
    /\ mpc = "validateInput"
    /\ mpc' = validateInput(env.input).kind
    /\ url' = validateInput(env.input).value
    /\ err' = validateInput(env.input).message
    /\ Called("validateInput", "part_005")
    /\ UNCHANGED <<env, tempDir, disk>>
    /\ UNCHANGED walkVars
    /\ UNCHANGED concVars

\* the caller awaits validateInput(input) of index.js
ApplyValidateInputIndexJs ==
    /\ mpc = "validateInput"
    /\ mpc' = validateInput_index_js(env.input).kind
    /\ url' = validateInput_index_js(env.input).value
    /\ err' = validateInput_index_js(env.input).message
    /\ Called("validateInput", "index.js")
    /\ UNCHANGED <<env, tempDir, disk>>
    /\ UNCHANGED walkVars
    /\ UNCHANGED concVars

ValidateNext == ApplyValidateInput \/ ApplyValidateInputIndexJs

ValidateSpec == ValidateInit /\ [][ValidateNext]_vars

\* ------------------------------------------------- concurrent downloads
\* Two runs of main (two processes, or two calls in one) from
\* downloadRepository to the cleanup of the temporary directory.  A
\* directory is named by the millisecond it was named in:
\* path.join(os.tmpdir(), `git2txt-${Date.now()}`).
ConcInit ==
    /\ clock = 0
    /\ runs = [r \in Runs |-> [pc |-> "idle", dir |-> 0]]
    /\ tmp = [n \in 0..MaxClock |-> "absent"]
    /\ env = NoEnv
    /\ mpc = "downloadRepository"
    /\ err = ""
    /\ url = <<>>
    /\ tempDir = FALSE
    /\ disk = NoDisk
    /\ calls = <<>>
    /\ tree = NoTree
    /\ options = MainOptions([threshold |-> NotGiven, truncate |-> FALSE,
                              includeAll |-> FALSE, maxFiles |-> 0, ignore |-> <<>>])
    /\ IdleWalk

\* a millisecond passes
Tick ==
    /\ clock < MaxClock
    /\ clock' = clock + 1
    /\ UNCHANGED <<runs, tmp>>
    /\ UNCHANGED mainVars
    /\ UNCHANGED walkVars

\* const tempDir = path.join(os.tmpdir(), `git2txt-${Date.now()}`)
NameTempDir ==
    /\ \E r \in Runs :
          /\ runs[r].pc = "idle"
          /\ runs' = [runs EXCEPT ![r] = [pc |-> "mkdir", dir |-> clock]]
    /\ UNCHANGED <<clock, tmp>>
    /\ UNCHANGED mainVars
    /\ UNCHANGED walkVars

\* await fs.mkdir(tempDir, { recursive: true }): no error when it exists
MkdirOfRun ==
    /\ \E r \in Runs :
          /\ runs[r].pc = "mkdir"
          /\ tmp' = [tmp EXCEPT ![runs[r].dir] = IF @ = "absent" THEN "empty" ELSE @]
          /\ runs' = [runs EXCEPT ![r].pc = "clone"]
    /\ UNCHANGED clock
    /\ UNCHANGED mainVars
    /\ UNCHANGED walkVars

\* git clone --depth 1 <url> <tempDir>: fails on a directory that is not
\* empty, and may fail for reasons of its own; else it fills the directory
CloneOfRun ==
    /\ \E r \in Runs : \E cloneFails \in BOOLEAN :
          /\ runs[r].pc = "clone"
          /\ IF cloneFails \/ tmp[runs[r].dir] = "cloned"
             THEN /\ runs' = [runs EXCEPT ![r].pc = "catch"]
                  /\ UNCHANGED tmp
             ELSE /\ runs' = [runs EXCEPT ![r].pc = "verify"]
                  /\ tmp' = [tmp EXCEPT ![runs[r].dir] = "cloned"]
    /\ UNCHANGED clock
    /\ UNCHANGED mainVars
    /\ UNCHANGED walkVars

\* const files = await fs.readdir(tempDir): throws when the directory is
\* gone, and an empty list is thrown as 'Repository appears to be empty';
\* else downloadRepository returns and main reads the directory
VerifyOfRun ==
    /\ \E r \in Runs :
          /\ runs[r].pc = "verify"
          /\ runs' = [runs EXCEPT ![r].pc =
                         IF tmp[runs[r].dir] = "cloned" THEN "reading" ELSE "catch"]
    /\ UNCHANGED <<clock, tmp>>
    /\ UNCHANGED mainVars
    /\ UNCHANGED walkVars

\* catch of downloadRepository: await cleanup(tempDir); throw error
CatchOfRun ==
    /\ \E r \in Runs :
          /\ runs[r].pc = "catch"
          /\ tmp' = [tmp EXCEPT ![runs[r].dir] = "absent"]
          /\ runs' = [runs EXCEPT ![r].pc = "failed"]
    /\ UNCHANGED clock
    /\ UNCHANGED mainVars
    /\ UNCHANGED walkVars

\* processFiles and writeOutput are over: finally of main, cleanup(tempDir)
FinallyOfRun ==
    /\ \E r \in Runs :
          /\ runs[r].pc = "reading"
          /\ tmp' = [tmp EXCEPT ![runs[r].dir] = "absent"]
          /\ runs' = [runs EXCEPT ![r].pc = "done"]
    /\ UNCHANGED clock
    /\ UNCHANGED mainVars
    /\ UNCHANGED walkVars

ConcNext ==
    \/ Tick \/ NameTempDir \/ MkdirOfRun \/ CloneOfRun \/ VerifyOfRun
    \/ CatchOfRun \/ FinallyOfRun

ConcSpec == ConcInit /\ [][ConcNext]_vars

\* ================================================================ claims
\* The tree and the options as the claims speak of them, computed from the
\* file system alone, not from the walk.
Parent(path) == SubSeq(path, 1, Len(path) - 1)
IsUnder(path, dir) == Len(path) > Len(dir) /\ SubSeq(path, 1, Len(dir)) = dir
\* no directory on the way to dir (dir included) matches an ignore pattern
NotPruned(dir) == \A k \in 1..Len(dir) : ~IsIgnored(SubSeq(dir, 1, k))
\* the files of the directories the walk is to list
VisitedFiles == {p \in FilePaths : NotPruned(Parent(p))}
LogIdx(outcomes) == {i \in DOMAIN log : log[i].outcome \in outcomes}
SkipOutcomes == {"stat-error", "large", "probe-error", "binary", "ignored", "read-error"}
\* not ignored, not skipped as large or binary, readable
Eligible(p) ==
    LET f == tree.files[p] IN
    /\ p \in VisitedFiles
    /\ ~IsIgnored(p)
    /\ f.fault \notin {"stat", "read"}
    /\ (options.includeAll \/ (f.fault # "probe" /\ ~isBinaryFile(f)))
    /\ (options.includeAll \/ options.truncate \/ f.size <= SliceEnd)
EligibleFiles == {p \in FilePaths : Eligible(p)}

\* C1: with maxFiles = N > 0 at most N files are emitted at any time, and
\* when a finished walk met more than N eligible files, omittedFiles is
\* their number minus N.
C1_MaxFilesBound ==
    options.maxFiles > 0 =>
        /\ Cardinality(LogIdx({"emit"})) <= options.maxFiles
        /\ processedFiles <= options.maxFiles
        /\ (status = "Succeeded" /\ Cardinality(EligibleFiles) > options.maxFiles
              => omittedFiles = Cardinality(EligibleFiles) - options.maxFiles)

C1_Witness ==
    /\ status = "Succeeded"
    /\ options.maxFiles = 1
    /\ Cardinality(EligibleFiles) >= 3
    /\ omittedFiles >= 2

\* C2: a directory whose relative path matches an ignore pattern is never
\* listed, gets no directory header, and no file below it is emitted,
\* named in the output or counted by any counter.
C2_IgnoredDirectoryPruned ==
    \A d \in DirPaths \ {Root} :
        IsIgnored(d) =>
            /\ \A l \in listed : l # d /\ ~IsUnder(l, d)
            /\ \A i \in DOMAIN output :
                  output[i].c \in {"**** Directory:", "**** File:"}
                      => output[i].p # d /\ ~IsUnder(output[i].p, d)
            /\ \A i \in DOMAIN log : ~IsUnder(log[i].path, d)
            /\ processedFiles + skippedFiles + omittedFiles = Len(log)

C2_Witness ==
    /\ status = "Succeeded"
    /\ IsIgnored(<<"sub">>)
    /\ processedFiles + skippedFiles >= 2

\* C9: after a successful walk the three counters add up to the number of
\* file entries of the listed directories, every such file was counted by
\* exactly one counter exactly once, and nothing else was counted.
C9_CountersPartitionFiles ==
    status = "Succeeded" =>
        /\ processedFiles + skippedFiles + omittedFiles = Cardinality(VisitedFiles)
        /\ \A p \in VisitedFiles : Cardinality({i \in DOMAIN log : log[i].path = p}) = 1
        /\ \A i \in DOMAIN log : log[i].path \in VisitedFiles
        /\ processedFiles = Cardinality(LogIdx({"emit"}))
        /\ omittedFiles = Cardinality(LogIdx({"omit"}))
        /\ skippedFiles = Cardinality(LogIdx(SkipOutcomes))

C9_Witness ==
    /\ status = "Succeeded"
    /\ processedFiles > 0 /\ skippedFiles > 0 /\ omittedFiles > 0
    /\ <<"sub">> \in listed

\* stat and read succeed on the file
Readable(p) == tree.files[p].fault \notin {"stat", "read"}
\* neither the file nor a directory above it matches an ignore pattern
NotMatched(p) == NotPruned(Parent(p)) /\ ~IsIgnored(p)

\* C3 (as written): with includeAll, after the walk processedFiles is the
\* number of files of the tree no ignore pattern matches, and every file
\* counted as skipped is matched by an ignore pattern.
C3_AsWritten ==
    options.includeAll /\ status = "Succeeded" =>
        /\ processedFiles = Cardinality({p \in FilePaths : NotMatched(p)})
        /\ \A i \in LogIdx(SkipOutcomes) : IsIgnored(log[i].path)

\* C3 (amended): with includeAll, after a successful walk processedFiles
\* plus omittedFiles (processedFiles alone when maxFiles is 0) is the number
\* of files of the listed directories whose stat and read succeed and that
\* no ignore pattern matches; skippedFiles counts exactly the files an
\* ignore pattern matches or whose stat or read failed.
C3_IncludeAllCounts ==
    options.includeAll /\ status = "Succeeded" =>
        /\ processedFiles + omittedFiles
              = Cardinality({p \in VisitedFiles : ~IsIgnored(p) /\ Readable(p)})
        /\ (options.maxFiles = 0 => omittedFiles = 0)
        /\ skippedFiles
              = Cardinality({p \in VisitedFiles : IsIgnored(p) \/ ~Readable(p)})
        /\ \A i \in LogIdx(SkipOutcomes) :
              IsIgnored(log[i].path) \/ ~Readable(log[i].path)

C3_Witness ==
    /\ options.includeAll /\ status = "Succeeded"
    /\ \E i \in DOMAIN log : log[i].outcome = "emit" /\ isBinaryFile(tree.files[log[i].path])
    /\ \E i \in DOMAIN log : log[i].outcome = "ignored"
    /\ processedFiles >= 2

\* C4: with includeAll no file is skipped for its size or for being binary
\* and every emitted file is emitted in full, whatever truncate and the
\* threshold are.
C4_IncludeAllEmitsInFull ==
    options.includeAll =>
        \A i \in DOMAIN log :
            /\ log[i].outcome \notin {"large", "binary", "probe-error"}
            /\ (log[i].outcome = "emit" => log[i].text = tree.files[log[i].path].content)

\* C5: with includeAll and truncate off, the step that handles a file whose
\* size exceeds the threshold adds one to skippedFiles and leaves the
\* output and the other counters as they were.
C5_LargeFileSkipped ==
    [][(/\ ~options.includeAll /\ ~options.truncate
        /\ InLoop("files") /\ EntryKind(Entry) = "file"
        /\ ExceedsThreshold(tree.files[Entry].size)
        /\ stack' # stack)
       => (/\ skippedFiles' = skippedFiles + 1
           /\ output' = output
           /\ processedFiles' = processedFiles
           /\ omittedFiles' = omittedFiles)]_vars

C5_Witness ==
    /\ ~options.includeAll /\ ~options.truncate
    /\ \E i \in DOMAIN log :
          /\ log[i].outcome = "large"
          /\ isBinaryFile(tree.files[log[i].path])
    /\ \E i \in DOMAIN log :
          /\ log[i].outcome = "large"
          /\ ~isBinaryFile(tree.files[log[i].path])

\* "\n\n[Truncated: ...]\n"
TruncationMarker == <<NL, NL, TruncatedLine, NL>>

\* C6: with includeAll off and truncate on, the content emitted for a file
\* larger than the threshold is the first sizeThresholdBytes bytes of the
\* file followed by the truncation marker.
C6_TruncatedToThresholdBytes ==
    ~options.includeAll /\ options.truncate =>
        \A i \in LogIdx({"emit"}) :
            ExceedsThreshold(tree.files[log[i].path].size) =>
                \E k \in 0..Len(log[i].text) :
                    /\ log[i].text = SubSeq(log[i].text, 1, k) \o TruncationMarker
                    /\ Bytes(SubSeq(log[i].text, 1, k)) = SliceEnd

\* a "<value> <unit>" size read back as a number of bytes
ParseSize(s) ==
    IF s.u = "B" THEN s.v \div 100
    ELSE IF s.u = "kB" THEN s.v * 10
    ELSE s.v * 10000
\* the (path, size) pairs of the "**** File:" lines of a text, in order
RECURSIVE ParseMarkers(_)
ParseMarkers(t) ==
    IF t = <<>> THEN <<>>
    ELSE IF Head(t).c = "**** File:"
         THEN <<[path |-> Head(t).p, size |-> ParseSize(Head(t).s)]>> \o ParseMarkers(Tail(t))
         ELSE ParseMarkers(Tail(t))
\* the (path, size) pairs of the files rendered, in order
RECURSIVE Rendered(_)
Rendered(l) ==
    IF l = <<>> THEN <<>>
    ELSE IF Head(l).outcome = "emit"
         THEN <<[path |-> Head(l).path, size |-> tree.files[Head(l).path].size]>>
              \o Rendered(Tail(l))
         ELSE Rendered(Tail(l))

\* C7: the "**** File:" lines of the aggregate of a finished walk give back
\* the paths and sizes of the files rendered, in order.
C7_MarkersRoundTrip ==
    status = "Succeeded" => ParseMarkers(output) = Rendered(log)

\* readable, text, and within the threshold unless truncation is on
ShouldEmit(p) ==
    LET f == tree.files[p] IN
    /\ f.fault = "none"
    /\ ~isBinaryFile(f)
    /\ (f.size <= SliceEnd \/ options.truncate)

\* C8: with includeAll off and maxFiles 0, a visited file no ignore pattern
\* matches is emitted exactly when it is readable, text and within the
\* threshold (or truncate is on); processedFiles counts those files and
\* skippedFiles every other visited file.
C8_DefaultSelection ==
    ~options.includeAll /\ options.maxFiles = 0 =>
        /\ \A i \in DOMAIN log :
              ~IsIgnored(log[i].path) =>
                  (log[i].outcome = "emit" <=> ShouldEmit(log[i].path))
        /\ processedFiles
              = Cardinality({i \in DOMAIN log :
                                ~IsIgnored(log[i].path) /\ ShouldEmit(log[i].path)})
        /\ skippedFiles = Len(log) - processedFiles
        /\ omittedFiles = 0
        /\ (status = "Succeeded" =>
              \A p \in VisitedFiles : \E i \in DOMAIN log : log[i].path = p)

C8_Witness ==
    /\ ~options.includeAll /\ options.maxFiles = 0 /\ status = "Succeeded"
    /\ ~options.ignorePatterns.defined
    /\ \E i \in DOMAIN log : log[i].path = <<"a.txt">> /\ log[i].outcome = "emit"
    /\ \E i \in DOMAIN log : log[i].path = <<"b.bin">> /\ log[i].outcome = "binary"
    /\ \E i \in DOMAIN log : log[i].path = <<"sub", "c.txt">> /\ log[i].outcome = "emit"

BuiltIn(path) == \E k \in 1..Len(path) : path[k] \in {".git", "node_modules"}

\* C10: no file inside a .git or node_modules directory, at any depth, is
\* emitted, whatever ignore patterns the caller gives; and with no user
\* pattern nothing outside those directories is ignored.
C10_BuiltInsNeverEmitted ==
    /\ \A i \in LogIdx({"emit"}) : ~BuiltIn(log[i].path)
    /\ (options.ignorePatterns = PatternList(MainIgnorePatterns(<<>>)) =>
            \A p \in FilePaths \cup (DirPaths \ {Root}) : IsIgnored(p) => BuiltIn(p))

\* C11: with maxFiles = 0 no file is omitted: omittedFiles stays 0 and the
\* output holds neither the cutoff notice nor the omission summary.
C11_UnlimitedOmitsNothing ==
    options.maxFiles = 0 =>
        /\ omittedFiles = 0
        /\ LogIdx({"omit"}) = {}
        /\ \A i \in DOMAIN output :
              output[i].c \notin {CutoffLine.c, SummaryLine(0).c}

C11_Witness ==
    /\ options.maxFiles = 0 /\ status = "Succeeded"
    /\ processedFiles >= 4

ErrorOutcomes == {"stat-error", "probe-error", "read-error"}

\* C12: the step on a file whose stat, probe or read throws adds one to
\* skippedFiles, leaves the output and the other counters as they were and
\* goes on to the next entry; the walk fails only on a directory listing.
C12_FileErrorCaught ==
    /\ [][(/\ InLoop("files") /\ EntryKind(Entry) = "file"
           /\ Classify(Entry) \in ErrorOutcomes
           /\ stack' # stack)
          => (/\ skippedFiles' = skippedFiles + 1
              /\ output' = output
              /\ processedFiles' = processedFiles
              /\ omittedFiles' = omittedFiles
              /\ status' = "Walking"
              /\ stack' = SetTop([Top EXCEPT !.i = @ + 1]))]_vars
    /\ [](status = "Failed" => tree.badDir \in DirPaths /\ tree.badDir \notin listed)

C12_Witness ==
    /\ status = "Succeeded"
    /\ \E i \in DOMAIN log : log[i].outcome = "stat-error"
    /\ \E i \in DOMAIN log : log[i].outcome = "read-error"
    /\ processedFiles >= 1

\* C13: the run fails only when the root directory cannot be listed; a
\* directory below the root that cannot be listed costs its subtree only.
C13_OnlyRootListingFails ==
    status = "Failed" => tree.badDir = Root

\* the fragments of the emitted files, in the order of the log
RECURSIVE EmittedText(_)
EmittedText(l) ==
    IF l = <<>> THEN <<>>
    ELSE IF Head(l).outcome = "emit"
         THEN Fragment(Head(l).path) \o EmittedText(Tail(l))
         ELSE EmittedText(Tail(l))
Drop(t, k) == SubSeq(t, k + 1, Len(t))
\* a text without its directory headers, cutoff marker and summary
RECURSIVE Strip(_)
Strip(t) ==
    IF t = <<>> THEN <<>>
    ELSE IF Len(t) >= 2 /\ t[1] = NL /\ t[2].c = "**** Directory:" THEN Strip(Drop(t, 2))
    ELSE IF Len(t) >= 5 /\ t[1] = NL /\ t[2].c = "**** File:" /\ t[3] = NL /\ t[4] = CutoffLine
         THEN Strip(Drop(t, 5))
    ELSE IF Len(t) >= 4 /\ t[1] = NL /\ t[2] = NL /\ t[3].c = SummaryLine(0).c
         THEN Strip(Drop(t, 4))
    ELSE <<Head(t)>> \o Strip(Tail(t))

\* C20: at every point of the walk the output, directory headers, cutoff
\* marker and summary apart, is the fragments of the processed files in the
\* order they were processed: one per processed file, no path twice.
C20_OneFragmentPerProcessedFile ==
    /\ Strip(output) = EmittedText(log)
    /\ Cardinality(LogIdx({"emit"})) = processedFiles
    /\ \A i, j \in LogIdx({"emit"}) : log[i].path = log[j].path => i = j

C20_Witness ==
    /\ status = "Walking"
    /\ processedFiles >= 2 /\ omittedFiles >= 1
    /\ \E i \in DOMAIN output : output[i].c = "**** Directory:"

\* C14: validateInput returns input[0] unchanged when it contains
\* 'github.com' or is an owner/repo short form; it throws 'Repository URL is
\* required' on an empty input and 'Only GitHub repositories are supported'
\* on any other URL, as an error the caller can catch.  (index.js ends the
\* process instead.)
C14_ValidateInputThrows ==
    mpc \in {"returned", "thrown", "exited"} =>
        IF env.input = <<>>
        THEN mpc = "thrown" /\ err = "Repository URL is required"
        ELSE IF Includes(env.input[1], "github.com") \/ IsShortForm(env.input[1])
        THEN mpc = "returned" /\ url = env.input[1]
        ELSE mpc = "thrown" /\ err = "Only GitHub repositories are supported"

\* ---------------------------------------------------------------- main
CallsOf(fn) == {i \in DOMAIN calls : calls[i][1] = fn}
Failing == {"catch", "finally", "rejected", "exited"}
Ended == {"resolved", "rejected", "exited"}

\* C15: main invoked with no repository URL fails with the error
\* 'Repository URL is required' before any download is started, any
\* temporary directory is created, or any output file is written.
C15_NoUrlFailsEarly ==
    (env.input = <<>> /\ mpc # "validateInput") =>
        /\ mpc \in Failing
        /\ err = "Repository URL is required"
        /\ CallsOf("downloadRepository") = {}
        /\ disk = NoDisk
        /\ tempDir = FALSE
        /\ IdleWalk

\* C15 witness: both ways main ends without a URL, rejected in test mode
\* and exited otherwise, are states of the model; this is the second
C15_Witness ==
    /\ env.input = <<>>
    /\ ~env.test
    /\ mpc = "exited"
    /\ err = "Repository URL is required"

DownloadErrors == {"Invalid GitHub URL", "Command failed: git clone",
                   "Repository appears to be empty"}
\* downloadRepository has thrown to main
DownloadFailed == err \in DownloadErrors /\ mpc # "downloadCatch"

Written == \E i \in DOMAIN calls : calls[i] = <<"writeOutput", "written">>
WriteFailed == \E i \in DOMAIN calls : calls[i] = <<"writeOutput", "write-failed">>
\* no surrogate without its pair
WellFormed(t) == \A i \in DOMAIN t : t[i].c # "high surrogate"

DocumentedDefaultBytes == MB \div 2

\* C19: when --threshold is not given, the size threshold is 0.5 MB: with
\* includeAll and truncate off, files larger than 0.5 MB are excluded and
\* files up to 0.5 MB pass the size check.  (The default of the flag is
\* 0.1.)
C19_DefaultThresholdHalfMB ==
    (~env.flags.threshold.given /\ ~options.includeAll /\ ~options.truncate) =>
        \A i \in DOMAIN log :
            (log[i].outcome = "large")
                <=> (tree.files[log[i].path].fault # "stat"
                     /\ tree.files[log[i].path].size > DocumentedDefaultBytes)

\* ------------------------------------------------------- traversal order
\* the header lines of the aggregate, and the directory each comes from: a
\* file line from the directory of the file, a directory line from that
\* directory
HeaderIdx == {i \in DOMAIN output : output[i].c \in {"**** File:", "**** Directory:"}}
Owner(i) == IF output[i].c = "**** File:" THEN Parent(output[i].p) ELSE output[i].p
InSubtree(d, S) == d = S \/ IsUnder(d, S)

\* C21: for every directory D, every fragment of a file directly in D comes
\* in the aggregate before any header or fragment from a subdirectory of D,
\* and the output of each subdirectory's subtree is contiguous.
C21_FilesBeforeSubdirectories ==
    /\ \A i, j \in HeaderIdx :
          (output[i].c = "**** File:" /\ IsUnder(Owner(j), Owner(i))) => i < j
    /\ \A S \in DirPaths \ {Root} : \A i, k, j \in HeaderIdx :
          (i < k /\ k < j /\ InSubtree(Owner(i), S) /\ InSubtree(Owner(j), S))
              => InSubtree(Owner(k), S)

\* C21 witness: a finished walk with files of the root, of sub, of
\* sub/node_modules and of .git in the aggregate
C21_Witness ==
    /\ status = "Succeeded"
    /\ \A p \in {<<"a.txt">>, <<"b.bin">>, <<"sub", "c.txt">>,
                 <<"sub", "node_modules", "x.js">>, <<".git", "HEAD">>} :
          \E i \in LogIdx({"emit"}) : log[i].path = p

\* ---------------------------------------------------------- max-files
\* where the notice of the cutoff stands in the aggregate
CutoffIdx == {i \in DOMAIN output : output[i].c = CutoffLine.c}
\* the first omitted file
FirstOmitted == log[CHOOSE i \in LogIdx({"omit"}) : \A j \in LogIdx({"omit"}) : i <= j].path

\* C22: once the maxFiles cutoff is crossed, the cutoff marker stands in the
\* aggregate exactly once, at the first omitted file, and it is terminal:
\* no file fragment is appended after it, while the walk goes on and every
\* later eligible file adds one to omittedFiles.
C22_CutoffMarkerOnceAndTerminal ==
    /\ [](omittedFiles = 0 => CutoffIdx = {})
    /\ [](omittedFiles >= 1 =>
            /\ Cardinality(CutoffIdx) = 1
            /\ Cardinality(LogIdx({"omit"})) = omittedFiles
            /\ \A i \in CutoffIdx :
                  /\ i > 3
                  /\ SubSeq(output, i - 3, i + 1) = CutoffMarker(FirstOmitted)
                  /\ \A j \in DOMAIN output : j > i => output[j].c # "**** File:"
                  /\ \A k \in LogIdx({"emit"}) : \A o \in LogIdx({"omit"}) : k < o)
    /\ [][omittedFiles >= 1 =>
            /\ processedFiles' = processedFiles
            /\ (InLoop("files") /\ EntryKind(Entry) = "file"
                   /\ Classify(Entry) \in {"omit", "emit"} /\ stack' # stack)
                 => /\ omittedFiles' = omittedFiles + 1
                    /\ output' = output
                    /\ status' = "Walking"
                    /\ stack' = SetTop([Top EXCEPT !.i = @ + 1])]_vars

\* C22 witness: a finished walk with three files omitted, the last two of
\* them in directories entered after the marker was written
C22_Witness ==
    /\ status = "Succeeded"
    /\ omittedFiles >= 3
    /\ \E i \in CutoffIdx : \E j \in DOMAIN output : j > i /\ output[j].c = "**** Directory:"

\* where a summary line stands in the aggregate
SummaryIdx == {i \in DOMAIN output : output[i].c = SummaryLine(0).c}

\* C23: after a full traversal the aggregate ends with a summary line
\* reporting omittedFiles if and only if omittedFiles is nonzero, and the
\* number it reports is the number of files omitted during the walk.
C23_SummaryIffOmitted ==
    /\ status = "Succeeded" =>
          /\ omittedFiles = Cardinality(LogIdx({"omit"}))
          /\ omittedFiles = 0 => SummaryIdx = {}
          /\ omittedFiles > 0 =>
                /\ SummaryIdx = {Len(output) - 1}
                /\ Len(output) >= 4
                /\ SubSeq(output, Len(output) - 3, Len(output))
                      = <<NL, NL, SummaryLine(Cardinality(LogIdx({"omit"}))), NL>>
    /\ status # "Succeeded" => SummaryIdx = {}

\* C23 witness: a finished walk that omitted two files and reports 2
C23_Witness ==
    /\ status = "Succeeded"
    /\ omittedFiles = 2
    /\ output[Len(output) - 1] = SummaryLine(2)

\* ------------------------------------------------------ binary and size
\* the probe runs to its end on the file and reports binary
ReportsBinary(p) == tree.files[p].fault \notin {"stat", "probe"} /\ isBinaryFile(tree.files[p])
Truncated(i) ==
    /\ log[i].outcome = "emit"
    /\ \E k \in DOMAIN log[i].text : log[i].text[k] = TruncatedLine

\* C24: with includeAll off, a file whose probe reports binary is skipped
\* whatever truncate and the size of the file are; truncate changes the
\* outcome of oversized text files only.
C24_BinarySkippedWhateverTruncate ==
    ~options.includeAll =>
        /\ \A i \in DOMAIN log :
              ReportsBinary(log[i].path) => log[i].outcome \in {"large", "binary"}
        /\ \A i \in DOMAIN log :
              (ReportsBinary(log[i].path) /\ options.truncate) => log[i].outcome = "binary"
        /\ \A i \in DOMAIN log :
              Truncated(i) =>
                  /\ options.truncate
                  /\ ~isBinaryFile(tree.files[log[i].path])
                  /\ ExceedsThreshold(tree.files[log[i].path].size)
        /\ \A i \in DOMAIN log :
              log[i].outcome = "large" =>
                  /\ ~options.truncate
                  /\ ExceedsThreshold(tree.files[log[i].path].size)
        /\ \A q \in FilePaths :
              ReportsBinary(q) => \A i \in HeaderIdx : output[i].p # q

\* C24 witness: truncate on, an oversized binary file skipped as binary and
\* an oversized text file truncated in the same walk
C24_Witness ==
    /\ status = "Succeeded"
    /\ ~options.includeAll /\ options.truncate
    /\ \E i \in LogIdx({"binary"}) : ExceedsThreshold(tree.files[log[i].path].size)
    /\ \E i \in DOMAIN log : Truncated(i)

\* ------------------------------------------------------------ termination
WalkEnded == status \in {"Succeeded", "Failed"}
\* the directories of the pending processDirectory calls
Pending == {stack[k].dir : k \in DOMAIN stack}

\* C25: every walk eventually ends, in Succeeded or in Failed; each
\* directory is visited at most once; once the walk has ended the aggregate
\* and the counters no longer change.
C25_WalkTerminates ==
    /\ <>WalkEnded
    /\ [][WalkEnded =>
            /\ status' = status
            /\ output' = output
            /\ processedFiles' = processedFiles
            /\ skippedFiles' = skippedFiles
            /\ omittedFiles' = omittedFiles]_vars
    /\ [][listed' # listed =>
            \E d \in DirPaths : d \notin listed /\ listed' = listed \cup {d}]_vars
    /\ [][Len(stack') > Len(stack) =>
            /\ stack'[Len(stack')].dir \notin listed
            /\ stack'[Len(stack')].dir \notin Pending]_vars
    /\ [](Cardinality(Pending) = Len(stack))

\* C25 witness: a walk that listed every directory and ended
C25_Witness == status = "Succeeded" /\ listed = DirPaths

\* ------------------------------------------------------- the end of main
\* C26: once downloadRepository has succeeded, the temporary directory is
\* removed on every path by which main ends, before the process terminates
\* (fs.rm not failing).  (exit(1) in the catch of main ends the process
\* before the finally block runs.)
C26_TempDirRemovedOnEveryExit ==
    (tempDir /\ mpc \in Ended /\ ~env.rmFails) => disk.temp = "absent"

\* C27: main invokes writeOutput, at most once, if and only if validation,
\* download and the walk all succeeded and the aggregate is non-empty; when
\* the walk succeeds with an empty aggregate main fails with 'No content was
\* generated from the repository' and writes no output file.
C27_WriteOutputIffContent ==
    /\ Cardinality(CallsOf("writeOutput")) <= 1
    /\ CallsOf("writeOutput") # {} =>
          /\ calls[1] = <<"validateInput", "returned">>
          /\ tempDir
          /\ status = "Succeeded"
          /\ output # <<>>
    /\ (status = "Succeeded" /\ output # <<>> /\ mpc \notin {"processFiles", "writeOutput"})
          => CallsOf("writeOutput") # {}
    /\ (status = "Succeeded" /\ output = <<>> /\ mpc # "processFiles") =>
          /\ err = "No content was generated from the repository"
          /\ mpc \in Failing
          /\ CallsOf("writeOutput") = {}
          /\ ~disk.out.exists
    /\ (mpc \in Ended /\ status # "Succeeded") =>
          CallsOf("writeOutput") = {} /\ ~disk.out.exists

\* C27 witness: every file of the root skipped, sub ignored, the walk
\* succeeded with an empty aggregate and main has failed
C27_Witness ==
    /\ mpc = "exited"
    /\ status = "Succeeded"
    /\ output = <<>>
    /\ skippedFiles = 2
    /\ err = "No content was generated from the repository"

\* the threshold is a whole number of bytes
ThresholdIntegral == (options.threshold.num * MB) % options.threshold.den = 0
AtThreshold(p) == ThresholdIntegral /\ tree.files[p].size = SliceEnd

\* C28: a readable non-binary file whose size equals the threshold exactly
\* is emitted in full, neither skipped as large nor truncated, for both
\* values of truncate; only a size strictly greater than the threshold is
\* skipped or truncated.
C28_SizeAtThresholdEmittedInFull ==
    /\ \A i \in DOMAIN log :
          AtThreshold(log[i].path) =>
              /\ log[i].outcome # "large"
              /\ ~Truncated(i)
              /\ log[i].outcome = "emit" => log[i].text = tree.files[log[i].path].content
              /\ (Readable(log[i].path) /\ ~isBinaryFile(tree.files[log[i].path])
                    /\ tree.files[log[i].path].fault # "probe"
                    /\ ~IsIgnored(log[i].path))
                   => log[i].outcome \in {"emit", "omit"}
    /\ \A i \in DOMAIN log :
          (log[i].outcome = "large" \/ Truncated(i))
              => tree.files[log[i].path].size > SliceEnd

\* C28 witness: truncate on, a file of exactly the threshold emitted in
\* full and a file one byte larger truncated
C28_Witness ==
    /\ options.truncate /\ ~options.includeAll
    /\ \E i \in LogIdx({"emit"}) :
          AtThreshold(log[i].path) /\ log[i].text = tree.files[log[i].path].content
    /\ \E i \in DOMAIN log :
          Truncated(i) /\ tree.files[log[i].path].size = SliceEnd + 1

\* C30: every URL that validateInput accepts is also accepted by
\* normalizeGitHubUrl: downloadRepository never fails with 'Invalid GitHub
\* URL'.  (http://github.com/user/repo contains 'github.com' and has none of
\* the three forms normalizeGitHubUrl knows.)
C30_ValidatedUrlsNormalize ==
    \A i \in DOMAIN calls :
        calls[i][1] = "downloadRepository" =>
            /\ calls[i][2] = "returned"
            /\ err # "Invalid GitHub URL"

\* ------------------------------------------------- concurrent downloads
\* C29: two invocations of downloadRepository running at the same time use
\* distinct temporary directories, so that neither run's clone nor its
\* cleanup touches the directory the other run is reading.  (Both read the
\* same Date.now() when they start within one millisecond.)
C29_DistinctTempDirs ==
    /\ \A r1, r2 \in Runs :
          (r1 # r2 /\ runs[r1].pc \notin {"idle", "failed", "done"}
                   /\ runs[r2].pc \notin {"idle", "failed", "done"})
              => runs[r1].dir # runs[r2].dir
    /\ \A r \in Runs : runs[r].pc = "reading" => tmp[runs[r].dir] = "cloned"

====
